---------------------------- MODULE Spec2Model ----------------------------
(***************************************************************************)
(* A model of the Burnet neural-network library: Network::learn and its    *)
(* helpers (src/include/brain/Network.hh) and the fan-out of Layer         *)
(* operations over worker tasks (src/include/burnet/Layer.hh,              *)
(* src/src/Layer.cpp).                                                     *)
(*                                                                         *)
(* Numbers.  The ratios of NetworkParam are doubles; the model takes them  *)
(* as the fractions k / RatioDen and computes with exact integer           *)
(* arithmetic.  For RatioDen a power of two and the dataset sizes used     *)
(* here every product, difference and comparison of shuffleData is exact   *)
(* in IEEE double arithmetic as well, so the two agree.  `unsigned` is     *)
(* 32 bits wide in the source; TLC's integers are 32-bit signed, so the    *)
(* model wraps at UnsignedModulus = 2^16 instead.  Every dataset size of   *)
(* the model is far below both moduli, and a wrapped value is far above    *)
(* every dataset size under both.                                          *)
(***************************************************************************)
EXTENDS Integers, Sequences, FiniteSets, TLC

(***************************************************************************)
(* Bounds of the model.                                                    *)
(***************************************************************************)
MaxRows == 8          \* rows of the raw dataset: 1..MaxRows
MaxBatchSize == 4     \* NetworkParam::batchSize: 1..MaxBatchSize
RatioDen == 8         \* validationRatio, testRatio: k / RatioDen
MaxSeed == 2          \* NetworkParam::seed: 0..MaxSeed
MaxClock == 3         \* readings of steady_clock: 1..MaxClock
MaxEpochCap == 4      \* NetworkParam::epoch: 0..MaxEpochCap
MaxPatience == 1      \* NetworkParam::patience: 0..MaxPatience
PlateauDen == 2       \* NetworkParam::plateau: k / PlateauDen, k = 1..PlateauDen
MaxLoss == 3          \* a loss that is a number: 0..MaxLoss
MaxNeurons == 3       \* neurons of the layer whose tasks are followed
MaxThreads == 2       \* nthreads, NetworkParam::threads: 1..MaxThreads
MaxBatchRows == 2     \* rows of a batch given to a layer
DropoutDen == 2       \* NetworkParam::dropout: k / DropoutDen, k < DropoutDen
MaxLines == 2         \* lines of a matrix given to a loss function
MaxColumns == 2       \* columns of a matrix given to a loss function
MaxValue == 1         \* an element that is a number: 0..MaxValue
MaxLayers == 3        \* layers of the network given to process
MaxWeight == 1        \* a neuron's weights are a value 0..MaxWeight
MaxBatches == 3       \* batches of an epoch
MaxEpochs == 3        \* the epoch cap of the runs that record their batches
MaxElements == 2      \* elements of the vector given to updateInput
MaxInputs == 1        \* inputs of the layer whose tasks are followed

UnsignedModulus == 65536

Min(a, b) == IF a < b THEN a ELSE b

(***************************************************************************)
(* The pseudo-random generator.  std::mt19937 and std::shuffle are library *)
(* code: the model keeps what the program relies on, a deterministic       *)
(* stream that is a function of the seed alone.                            *)
(***************************************************************************)
\* _seed as the constructor computes it: the clock when param.seed is 0
SeedOf(paramSeed, clock) == IF paramSeed = 0 THEN clock ELSE paramSeed

\* std::mt19937(_seed): the generator's state after seeding
Mt19937(s) == s % 16

\* one step of the generator
GenNext(g) == (5 * g + 3) % 16

Swap(s, i, j) == [s EXCEPT ![i] = s[j], ![j] = s[i]]

RECURSIVE ShuffleFrom(_, _, _)
ShuffleFrom(s, g, i) ==
    IF i > Len(s)
    THEN [rows |-> s, gen |-> g]
    ELSE LET g1 == GenNext(g)
             j == (g1 % i) + 1
         IN ShuffleFrom(Swap(s, i, j), g1, i + 1)

\* std::shuffle(_rawData.begin(), _rawData.end(), _generator)
StdShuffle(s, g) == ShuffleFrom(s, g, 2)

(***************************************************************************)
(* Network::shuffleData, the arithmetic.  n is _rawData.size(), b is       *)
(* _batchSize, vn / RatioDen is _validationRatio, tn / RatioDen is         *)
(* _testRatio.  With both ratios 0 the two shares are 0 / 0, a NaN, whose   *)
(* conversion to unsigned is undefined: the model takes vn + tn >= 1.      *)
(***************************************************************************)
ToUnsigned(x) == x % UnsignedModulus

\* std::trunc(_rawData.size() - validation - test)
TruncTrain(n, vn, tn) == (n * (RatioDen - vn - tn)) \div RatioDen

\* static_cast<unsigned>(nbBatch) after the 0.5 rule: one more batch when
\* the incomplete batch holds at least half of _batchSize
NbBatch(n, b, vn, tn) ==
    LET t == TruncTrain(n, vn, tn)
    IN (t \div b) + (IF 2 * (t % b) >= b THEN 1 ELSE 0)

NbTrain(n, b, vn, tn) == ToUnsigned(NbBatch(n, b, vn, tn) * b)

NoTrain(n, b, vn, tn) == ToUnsigned(n - NbTrain(n, b, vn, tn))

\* std::round(noTrain * part / (vn + tn)), half away from zero, vn + tn > 0
RoundShare(noTrain, part, sum) == (2 * noTrain * part + sum) \div (2 * sum)

\* static_cast<unsigned>(validation) in the first pop loop
ValidationCount(n, b, vn, tn) ==
    ToUnsigned(RoundShare(NoTrain(n, b, vn, tn), vn, vn + tn))

\* static_cast<unsigned>(test) in the second pop loop
TestCount(n, b, vn, tn) ==
    ToUnsigned(RoundShare(NoTrain(n, b, vn, tn), tn, vn + tn))

\* the k last rows of s, last first: what k push_back(back) / pop_back move
PopBack(s, k) == [i \in 1..k |-> s[Len(s) - i + 1]]

\* The three pop loops on the shuffled rows, cv and ct the loop counts.
\* popEmpty: a loop reads back() of, and pops, the empty vector.
Partition(raw, cv, ct) ==
    LET n == Len(raw)
        popsV == Min(cv, n)
        rest1 == SubSeq(raw, 1, n - popsV)
        popsT == Min(ct, Len(rest1))
        rest2 == SubSeq(rest1, 1, Len(rest1) - popsT)
    IN [valid |-> PopBack(raw, popsV),
        test |-> PopBack(rest1, popsT),
        train |-> PopBack(rest2, Len(rest2)),
        popEmpty |-> (cv > n) \/ (ct > Len(rest1))]


(***************************************************************************)
(* State.  The first group is the Network of Network.hh; names are the     *)
(* members' names.  Rows of the dataset are identified by the numbers      *)
(* 1..n; 0 is a row read from outside a vector.                            *)
(***************************************************************************)
VARIABLES
    pc,               \* position of the thread running Network::learn
    result,           \* how learn ended: "none", "true", "false", "throw"
    seed,             \* NetworkParam::seed
    _seed,
    _generator,
    _batchSize,
    _validationRatio, \* numerator over RatioDen
    _testRatio,       \* numerator over RatioDen
    _rawData,
    _trainData,
    _validationData,
    _testData,
    _nbBatch,
    popEmpty,         \* a pop loop of shuffleData went past the empty vector
    dataSize,         \* history: the number of rows setData stored
    layerSize,        \* _layers[i]->size(), i = 1..Len(layerSize)
    outputSize,       \* _rawData[0].second.size()
    weights,          \* weights of each layer
    savedWeights,     \* the checkpoint copy each layer's neurons hold
    standardized,     \* standardize() was applied to the three sets
    _maxEpoch,
    _patience,
    _plateau,         \* numerator over PlateauDen
    _epoch,
    _optimalEpoch,
    lowestLoss,
    _trainLosses,
    _validLosses,
    _testMetric,
    _testSecondMetric,
    epochWeights,     \* history: the weights when each loss entry was pushed
    twin,             \* a second Network built from the same NetworkParam
    nthreads,         \* the number of threads: `nthreads`, NetworkParam::threads
    pooled,           \* the layer hands its tasks to the ThreadPool (Layer.cpp)
    _dropout,         \* numerator over DropoutDen
    batchRows,        \* rows of the batch given to processToLearn
    _inputSize,       \* Layer::_inputSize
    op,               \* the Layer operation called
    lpc,              \* position of the thread calling a Layer operation
    joined,           \* the index of the join loop: tasks waited for so far
    tasks,            \* the tasks of the operation under way
    output,           \* the matrix processToLearn returns, by neuron and row
    grad,             \* the accumulator of getGradients, by input
    visits,           \* history: calls of each neuron by the operation
    drawnBy,          \* history: the threads that drew from the generator
    _loss,            \* NetworkParam::loss
    real,             \* the matrix `real` given to a loss function
    predicted,        \* the matrix `predicted` given to a loss function
    lossPair,         \* what the loss function did: its outcome and its pair
    lossPc,           \* position of the caller of computeLossMatrix
    caller,           \* what runs the layers: process, computeLoss or a batch
    ppc,              \* position in Network::process and its caller
    inputs,           \* the matrix handed from layer to layer
    recorded,         \* the matrix whose average computeLoss records
    neuronWeights,    \* the weights of each neuron of a layer
    neuronSaved,      \* the checkpoint copy of each neuron of a layer
    keptWeights,      \* history: the neurons' weights when save was called
    kpc,              \* position of the caller of save and loadSaved
    batch,            \* the batch index of performeOneEpoch
    bpc,              \* position in the body of the batch loop
    log,              \* history: the Layer operations called, by batch
    input,            \* updateInput: per element, the neurons that updated it
    upc,              \* position of the caller of updateInput
    ui,               \* the loop index of updateInput
    updaters          \* the calls of Neuron::updateInput under way

netVars == <<seed, _seed, _generator, _batchSize, _validationRatio, _testRatio,
             _rawData, _trainData, _validationData, _testData, _nbBatch,
             popEmpty, dataSize>>
layerVars == <<layerSize, outputSize, weights, savedWeights, standardized>>
learnVars == <<_maxEpoch, _patience, _plateau, _epoch, _optimalEpoch,
               lowestLoss, _trainLosses, _validLosses, _testMetric,
               _testSecondMetric, epochWeights>>
fanParams == <<nthreads, pooled, _dropout, batchRows, _inputSize>>
fanVars == <<fanParams, op, lpc, joined, tasks, output, grad, visits, drawnBy>>
lossVars == <<_loss, real, predicted, lossPair, lossPc>>
processVars == <<caller, ppc, inputs, recorded>>
keepVars == <<neuronWeights, neuronSaved, keptWeights, kpc>>
batchVars == <<batch, bpc, log>>
updateVars == <<input, upc, ui, updaters>>
restVars == <<lossVars, processVars, keepVars, batchVars, updateVars>>
vars == <<pc, result, netVars, layerVars, learnVars, twin, fanVars, restVars>>

Layers == 1..Len(layerSize)

\* a layer's weights: not yet sized, or the initial weights after `updates`
\* calls of updateWeights
NoWeights == [set |-> FALSE, updates |-> 0]
InitialWeights == [set |-> TRUE, updates |-> 0]

\* the checkpoint copy of a neuron's weights before any save(): the copy is
\* written by save() alone
EmptyCheckpoint == [set |-> FALSE, updates |-> 0]

\* the rows 1..n in the order setData stored them
Rows(n) == [i \in 1..n |-> i]

\* the second Network before it is constructed
NoTwin == [_seed |-> 0, _generator |-> 0, _rawData |-> <<>>,
           _trainData |-> <<>>, _validationData |-> <<>>, _testData |-> <<>>,
           _nbBatch |-> 0, popEmpty |-> FALSE, pc |-> "none"]

\* no Layer operation is under way
NoFanOut ==
    /\ nthreads = 1
    /\ pooled = FALSE
    /\ _dropout = 0
    /\ batchRows = 1
    /\ _inputSize = 0
    /\ op = "none"
    /\ lpc = "idle"
    /\ joined = 0
    /\ tasks = <<>>
    /\ output = <<>>
    /\ grad = <<>>
    /\ visits = <<>>
    /\ drawnBy = {}

\* no loss function is being called
NoLoss ==
    /\ _loss = "L2"
    /\ real = <<>>
    /\ predicted = <<>>
    /\ lossPair = [outcome |-> "none"]
    /\ lossPc = "idle"

\* the layers are not being run
NoProcess ==
    /\ caller = "none"
    /\ ppc = "idle"
    /\ inputs = <<>>
    /\ recorded = <<>>

\* no layer is being saved or restored
NoKeep ==
    /\ neuronWeights = <<>>
    /\ neuronSaved = <<>>
    /\ keptWeights = <<>>
    /\ kpc = "idle"

\* no updateInput is under way
NoUpdateInput ==
    /\ input = <<>>
    /\ upc = "idle"
    /\ ui = 0
    /\ updaters = {}

\* no batch is being run
NoBatch ==
    /\ batch = 0
    /\ bpc = [at |-> "idle", i |-> 0]
    /\ log = <<>>

(***************************************************************************)
(* The state after Network::Network and setData.                           *)
(***************************************************************************)
Constructed(n, b, vn, tn, s, clock) ==
    /\ seed = s
    /\ _seed = SeedOf(s, clock)
    /\ _generator = Mt19937(SeedOf(s, clock))
    /\ _batchSize = b
    /\ _validationRatio = vn
    /\ _testRatio = tn
    /\ _rawData = Rows(n)
    /\ dataSize = n
    /\ _trainData = <<>>
    /\ _validationData = <<>>
    /\ _testData = <<>>
    /\ _nbBatch = 0
    /\ popEmpty = FALSE
    /\ _epoch = 0
    /\ _optimalEpoch = 0
    /\ _trainLosses = <<>>
    /\ _validLosses = <<>>
    /\ _testMetric = <<>>
    /\ _testSecondMetric = <<>>
    /\ pc = "start"
    /\ result = "none"

\* addLayer: the layers exist, unsized, with an empty checkpoint
LayersAdded(sizes, outs) ==
    /\ layerSize = sizes
    /\ outputSize = outs
    /\ weights = [l \in 1..Len(sizes) |-> NoWeights]
    /\ savedWeights = [l \in 1..Len(sizes) |-> EmptyCheckpoint]
    /\ standardized = FALSE
    /\ epochWeights = <<>>

(***************************************************************************)
(* Network::initLayers: every layer is sized from the raw data and its     *)
(* neighbours.                                                             *)
(***************************************************************************)
InitLayers ==
    /\ pc = "start"
    /\ weights' = [l \in Layers |-> InitialWeights]
    /\ pc' = "initialized"
    /\ UNCHANGED <<restVars, result, netVars, layerSize, outputSize, savedWeights,
                   standardized, learnVars, twin, fanVars>>

(***************************************************************************)
(* Network::shuffleData on the rows raw with generator state gen: the      *)
(* shuffle, the counts and the three pop loops.                            *)
(***************************************************************************)
ShuffleDataRun(raw, gen, b, vn, tn) ==
    LET sh == StdShuffle(raw, gen)
        n == Len(raw)
        cv == ValidationCount(n, b, vn, tn)
        ct == TestCount(n, b, vn, tn)
        p == Partition(sh.rows, cv, ct)
    IN [gen |-> sh.gen, valid |-> p.valid, test |-> p.test, train |-> p.train,
        nbBatch |-> NbBatch(n, b, vn, tn), popEmpty |-> p.popEmpty,
        inFirstLoop |-> cv > n]

(***************************************************************************)
(* When a loop count exceeds the rows left, back() and pop_back() on the   *)
(* empty vector are undefined.  The rows moved before that are where the   *)
(* loops put them; what follows is any of: the process dies there, or it   *)
(* goes on with rows read from outside the vector (0) in the set being     *)
(* filled and in the training set.                                         *)
(***************************************************************************)
UndefinedOutcomes(r) ==
    {[valid |-> r.valid \o (IF r.inFirstLoop THEN g1 ELSE <<>>),
      test |-> r.test \o (IF r.inFirstLoop THEN <<>> ELSE g1),
      train |-> IF dies THEN <<>> ELSE g2,
      dies |-> dies] :
        g1 \in {<<>>, <<0>>}, g2 \in {<<>>, <<0>>}, dies \in BOOLEAN}

\* Network::shuffleData, no loop going past the empty vector
ShuffleDataDefined ==
    /\ pc = "initialized"
    /\ LET r == ShuffleDataRun(_rawData, _generator, _batchSize,
                               _validationRatio, _testRatio)
       IN /\ ~r.popEmpty
          /\ _generator' = r.gen
          /\ _validationData' = r.valid
          /\ _testData' = r.test
          /\ _trainData' = r.train
          /\ _rawData' = <<>>
          /\ _nbBatch' = r.nbBatch
          /\ popEmpty' = FALSE
    /\ pc' = "partitioned"
    /\ UNCHANGED <<restVars, result, seed, _seed, _batchSize, _validationRatio, _testRatio,
                   dataSize, layerVars, learnVars, twin, fanVars>>

\* Network::shuffleData, a loop going past the empty vector
ShuffleDataUndefined ==
    /\ pc = "initialized"
    /\ LET r == ShuffleDataRun(_rawData, _generator, _batchSize,
                               _validationRatio, _testRatio)
       IN /\ r.popEmpty
          /\ \E o \in UndefinedOutcomes(r) :
               /\ _validationData' = o.valid
               /\ _testData' = o.test
               /\ _trainData' = o.train
               /\ _nbBatch' = IF o.dies THEN _nbBatch ELSE r.nbBatch
               /\ pc' = IF o.dies THEN "crashed" ELSE "partitioned"
          /\ _generator' = r.gen
          /\ _rawData' = <<>>
          /\ popEmpty' = TRUE
    /\ UNCHANGED <<restVars, result, seed, _seed, _batchSize, _validationRatio, _testRatio,
                   dataSize, layerVars, learnVars, twin, fanVars>>


(***************************************************************************)
(* Partitioning alone: every dataset size, batch size and pair of ratios   *)
(* within the bounds, taken through initLayers and shuffleData.            *)
(***************************************************************************)
InitPartition ==
    /\ \E n \in 1..MaxRows, b \in 1..MaxBatchSize,
          vn \in 0..(RatioDen - 1), tn \in 0..(RatioDen - 1),
          s \in 0..MaxSeed, clock \in 1..MaxClock :
            /\ vn + tn >= 1
            /\ vn + tn < RatioDen
            /\ Constructed(n, b, vn, tn, s, clock)
    /\ LayersAdded(<<1>>, 1)
    /\ _maxEpoch = 0 /\ _patience = 0 /\ _plateau = 1 /\ lowestLoss = 0
    /\ twin = NoTwin
    /\ NoFanOut
    /\ NoLoss /\ NoProcess /\ NoKeep /\ NoBatch
    /\ NoUpdateInput

NextPartition == InitLayers \/ ShuffleDataDefined \/ ShuffleDataUndefined

SpecPartition == InitPartition /\ [][NextPartition]_vars

\* shuffleData has run to its end
Partitioned == pc = "partitioned"

\* C1: after shuffleData the training set holds exactly _nbBatch * batchSize
\* rows, whatever N, B and the ratios are.
C1_TrainIsWholeBatches ==
    Partitioned => Len(_trainData) = _nbBatch * _batchSize

\* how often row r occurs in the sequence s
Occurrences(s, r) == Cardinality({i \in 1..Len(s) : s[i] = r})

\* C2: after shuffleData the three sets' sizes sum to N, every raw row is in
\* exactly one of them, and no pop loop removed a row from the empty dataset.
C2_PartitionIsExact ==
    /\ ~popEmpty
    /\ Partitioned =>
          /\ Len(_trainData) + Len(_validationData) + Len(_testData) = dataSize
          /\ \A r \in 1..dataSize :
                Occurrences(_trainData \o _validationData \o _testData, r) = 1

(***************************************************************************)
(* Two Networks built from one NetworkParam and given one dataset.  The    *)
(* second is constructed at its own reading of the clock and runs the same *)
(* initLayers and shuffleData.                                             *)
(***************************************************************************)
TwinConstructed(n, s, clock) ==
    twin = [_seed |-> SeedOf(s, clock),
            _generator |-> Mt19937(SeedOf(s, clock)),
            _rawData |-> Rows(n),
            _trainData |-> <<>>, _validationData |-> <<>>, _testData |-> <<>>,
            _nbBatch |-> 0, popEmpty |-> FALSE, pc |-> "start"]

\* initLayers of the second Network: it sizes the layers and draws nothing
\* from _generator
TwinInitLayers ==
    /\ twin.pc = "start"
    /\ twin' = [twin EXCEPT !.pc = "initialized"]
    /\ UNCHANGED <<restVars, pc, result, netVars, layerVars, learnVars, fanVars>>

TwinShuffleDataDefined ==
    /\ twin.pc = "initialized"
    /\ LET r == ShuffleDataRun(twin._rawData, twin._generator, _batchSize,
                               _validationRatio, _testRatio)
       IN /\ ~r.popEmpty
          /\ twin' = [twin EXCEPT !._generator = r.gen,
                                  !._validationData = r.valid,
                                  !._testData = r.test,
                                  !._trainData = r.train,
                                  !._rawData = <<>>,
                                  !._nbBatch = r.nbBatch,
                                  !.pc = "partitioned"]
    /\ UNCHANGED <<restVars, pc, result, netVars, layerVars, learnVars, fanVars>>

TwinShuffleDataUndefined ==
    /\ twin.pc = "initialized"
    /\ LET r == ShuffleDataRun(twin._rawData, twin._generator, _batchSize,
                               _validationRatio, _testRatio)
       IN /\ r.popEmpty
          /\ \E o \in UndefinedOutcomes(r) :
               twin' = [twin EXCEPT !._generator = r.gen,
                                    !._validationData = o.valid,
                                    !._testData = o.test,
                                    !._trainData = o.train,
                                    !._rawData = <<>>,
                                    !._nbBatch = IF o.dies THEN 0 ELSE r.nbBatch,
                                    !.popEmpty = TRUE,
                                    !.pc = IF o.dies THEN "crashed"
                                           ELSE "partitioned"]
    /\ UNCHANGED <<restVars, pc, result, netVars, layerVars, learnVars, fanVars>>

InitSeed ==
    /\ \E n \in 1..MaxRows, b \in 1..MaxBatchSize,
          vn \in 0..(RatioDen - 1), tn \in 0..(RatioDen - 1),
          s \in 0..MaxSeed, clock \in 1..MaxClock, clock2 \in 1..MaxClock :
            /\ vn + tn >= 1
            /\ vn + tn < RatioDen
            /\ Constructed(n, b, vn, tn, s, clock)
            /\ TwinConstructed(n, s, clock2)
    /\ LayersAdded(<<1>>, 1)
    /\ _maxEpoch = 0 /\ _patience = 0 /\ _plateau = 1 /\ lowestLoss = 0
    /\ NoFanOut
    /\ NoLoss /\ NoProcess /\ NoKeep /\ NoBatch
    /\ NoUpdateInput

NextSeed ==
    \/ InitLayers
    \/ ShuffleDataDefined
    \/ ShuffleDataUndefined
    \/ TwinInitLayers
    \/ TwinShuffleDataDefined
    \/ TwinShuffleDataUndefined

SpecSeed == InitSeed /\ [][NextSeed]_vars

\* the two Networks are at the same place of learn
SameStage == pc = twin.pc

SamePartition ==
    /\ _trainData = twin._trainData
    /\ _validationData = twin._validationData
    /\ _testData = twin._testData
    /\ _nbBatch = twin._nbBatch

\* C9: for every seed of the NetworkParam, 0 included, two Networks built
\* from it and given the same dataset hold the same generator state before
\* weight initialization and after shuffleData, and the same train,
\* validation and test sets.
C9_SameSeedSameRun ==
    SameStage => (_generator = twin._generator /\ SamePartition)

(***************************************************************************)
(* Network::learn after shuffleData.  A loss is a number 0..MaxLoss or     *)
(* NaN; what computeLoss returns depends on data and weights the model     *)
(* does not hold, so each call draws its two losses.                       *)
(***************************************************************************)
NaN == -1

IsNaN(x) == x = NaN

LossValues == 0..MaxLoss \cup {NaN}

\* a < b on doubles: false when either side is NaN
Less(a, b) == ~IsNaN(a) /\ ~IsNaN(b) /\ a < b

\* the plateau test with <= for <
ImprovesOrEqual(validLoss, lowest, k) ==
    ~IsNaN(validLoss) /\ ~IsNaN(lowest) /\ validLoss * PlateauDen <= lowest * k

\* the plateau test with > for <
ImprovesWhenAbove(validLoss, lowest, k) ==
    ~IsNaN(validLoss) /\ ~IsNaN(lowest) /\ validLoss * PlateauDen > lowest * k

\* validLoss < lowestLoss * _plateau, the plateau being k / PlateauDen
Improves(validLoss, lowest, k) ==
    ~IsNaN(validLoss) /\ ~IsNaN(lowest) /\ validLoss * PlateauDen < lowest * k

\* the patience test with >= for >
PatienceExceededOrEqual(epoch, optimal, patience) == epoch - optimal >= patience

\* the patience test one epoch late
PatienceExceededLate(epoch, optimal, patience) == epoch - optimal > patience + 1

\* _epoch - _optimalEpoch > _patience
PatienceExceeded(epoch, optimal, patience) == epoch - optimal > patience

\* the size test on the first layer instead of the last
FirstLayerMismatch(sizes, outs) == sizes[1] # outs

\* _layers[_layers.size()-1]->size() != _trainRealResults[0].size()
LastLayerMismatch(sizes, outs) == sizes[Len(sizes)] # outs

\* learn going on to the size test with nothing standardized
StandardizeSkipped ==
    /\ pc = "partitioned"
    /\ pc' = "standardized"
    /\ UNCHANGED <<restVars, result, netVars, layerVars, learnVars, twin, fanVars>>

\* standardize on the three sets, and normalize on the outputs
Standardize ==
    /\ pc = "partitioned"
    /\ standardized' = TRUE
    /\ pc' = "standardized"
    /\ UNCHANGED <<restVars, result, netVars, layerSize, outputSize, weights,
                   savedWeights, learnVars, twin, fanVars>>

\* the size test of learn, and its throw
CheckLastLayer ==
    /\ pc = "standardized"
    /\ IF LastLayerMismatch(layerSize, outputSize)
       THEN pc' = "thrown" /\ result' = "throw"
       ELSE pc' = "baseline" /\ result' = result
    /\ UNCHANGED <<restVars, netVars, layerVars, learnVars, twin, fanVars>>

\* computeLoss pushing the two losses and leaving the metrics out
PushLossesAlone(trainLoss, validLoss) ==
    /\ _trainLosses' = Append(_trainLosses, trainLoss)
    /\ _validLosses' = Append(_validLosses, validLoss)
    /\ epochWeights' = Append(epochWeights, weights)
    /\ UNCHANGED <<_testMetric, _testSecondMetric>>

\* Network::computeLoss: the two losses and the two test metrics, whatever
\* _metric is, are appended to the four histories
PushLosses(trainLoss, validLoss) ==
    /\ _trainLosses' = Append(_trainLosses, trainLoss)
    /\ _validLosses' = Append(_validLosses, validLoss)
    /\ _testMetric' = Append(_testMetric, "metric")
    /\ _testSecondMetric' = Append(_testSecondMetric, "metric")
    /\ epochWeights' = Append(epochWeights, weights)

\* double lowestLoss = computeLoss(); and the loop's _epoch = 1
Baseline ==
    /\ pc = "baseline"
    /\ \E trainLoss \in {1, NaN}, validLoss \in LossValues :
          /\ PushLosses(trainLoss, validLoss)
          /\ lowestLoss' = validLoss
    /\ _epoch' = 1
    /\ pc' = "loopTest"
    /\ UNCHANGED <<restVars, result, netVars, layerVars, _maxEpoch, _patience, _plateau,
                   _optimalEpoch, twin, fanVars>>

\* the loop's test with <= for <
LoopContinuesInclusive(epoch, maxEpoch) == epoch <= maxEpoch

\* _epoch < _maxEpoch
LoopContinues(epoch, maxEpoch) == epoch < maxEpoch

\* the loop's test _epoch < _maxEpoch
LoopTest ==
    /\ pc = "loopTest"
    /\ pc' = IF LoopContinues(_epoch, _maxEpoch) THEN "epoch" ELSE "restore"
    /\ UNCHANGED <<restVars, result, netVars, layerVars, learnVars, twin, fanVars>>

\* Network::performeOneEpoch: every batch ends with updateWeights on every
\* layer
PerformeOneEpoch ==
    /\ pc = "epoch"
    /\ weights' = [l \in Layers |->
                      [weights[l] EXCEPT !.updates = @ + _nbBatch]]
    /\ pc' = "computeLoss"
    /\ UNCHANGED <<restVars, result, netVars, layerSize, outputSize, savedWeights,
                   standardized, learnVars, twin, fanVars>>

\* double validLoss = computeLoss(); in the loop
ComputeLoss ==
    /\ pc = "computeLoss"
    /\ \E trainLoss \in {1, NaN}, validLoss \in LossValues :
          PushLosses(trainLoss, validLoss)
    /\ pc' = "divergence"
    /\ UNCHANGED <<restVars, result, netVars, layerVars, _maxEpoch, _patience, _plateau,
                   _epoch, _optimalEpoch, lowestLoss, twin, fanVars>>

\* the validLoss of the current epoch
ValidLoss == _validLosses[Len(_validLosses)]

\* the divergence test on the validation loss alone
DivergedValidOnly(trainLoss, validLoss) == IsNaN(validLoss)

\* std::isnan(_trainLosses[_epoch]) || std::isnan(validLoss)
Diverged(trainLoss, validLoss) == IsNaN(trainLoss) \/ IsNaN(validLoss)

\* the NaN test going through loadSaved() before its return false
DivergenceCheckRestoring ==
    /\ pc = "divergence"
    /\ IF Diverged(_trainLosses[_epoch + 1], ValidLoss)
       THEN pc' = "returned" /\ result' = "false" /\ weights' = savedWeights
       ELSE pc' = "earlyStopping" /\ result' = result /\ weights' = weights
    /\ UNCHANGED <<restVars, netVars, layerSize, outputSize, savedWeights,
                   standardized, learnVars, twin, fanVars>>

\* if(std::isnan(_trainLosses[_epoch]) || std::isnan(validLoss)) return false;
DivergenceCheck ==
    /\ pc = "divergence"
    /\ IF Diverged(_trainLosses[_epoch + 1], ValidLoss)
       THEN pc' = "returned" /\ result' = "false"
       ELSE pc' = "earlyStopping" /\ result' = result
    /\ UNCHANGED <<restVars, netVars, layerVars, learnVars, twin, fanVars>>

\* the early stopping block: save() on every layer when the loss improves,
\* then the patience test, its break, and the loop's _epoch++
EarlyStopping ==
    /\ pc = "earlyStopping"
    /\ LET improved == Improves(ValidLoss, lowestLoss, _plateau)
           optimal == IF improved THEN _epoch ELSE _optimalEpoch
       IN /\ savedWeights' = IF improved THEN weights ELSE savedWeights
          /\ lowestLoss' = IF improved THEN ValidLoss ELSE lowestLoss
          /\ _optimalEpoch' = optimal
          /\ IF PatienceExceeded(_epoch, optimal, _patience)
             THEN pc' = "restore" /\ _epoch' = _epoch
             ELSE pc' = "loopTest" /\ _epoch' = _epoch + 1
    /\ UNCHANGED <<restVars, result, netVars, layerSize, outputSize, weights,
                   standardized, _maxEpoch, _patience, _plateau, _trainLosses,
                   _validLosses, epochWeights, _testMetric,
                   _testSecondMetric, twin, fanVars>>

\* loadSaved() on every layer, and return true
LoadSaved ==
    /\ pc = "restore"
    /\ weights' = savedWeights
    /\ result' = "true"
    /\ pc' = "returned"
    /\ UNCHANGED <<restVars, netVars, layerSize, outputSize, savedWeights, standardized,
                   learnVars, twin, fanVars>>

(***************************************************************************)
(* learn from its first line to its end, on datasets that shuffleData      *)
(* splits into whole batches without going past the empty vector (the      *)
(* others are the subject of SpecPartition).                               *)
(***************************************************************************)
WholeBatches(n, b, vn, tn, g) ==
    LET r == ShuffleDataRun(Rows(n), g, b, vn, tn)
    IN ~r.popEmpty /\ r.nbBatch >= 1 /\ Len(r.train) = r.nbBatch * b

LayerConfigs == {<<1>>, <<2>>, <<1, 2>>, <<2, 1>>}

InitLearn ==
    /\ \E n \in (MaxRows - 1)..MaxRows, b \in (MaxBatchSize - 1)..MaxBatchSize :
          /\ WholeBatches(n, b, 1, 1, Mt19937(1))
          /\ Constructed(n, b, 1, 1, 1, 1)
    /\ \E sizes \in LayerConfigs : LayersAdded(sizes, 1)
    /\ _maxEpoch \in 0..MaxEpochCap
    /\ _patience \in 0..MaxPatience
    /\ _plateau \in 1..PlateauDen \cup {2 * PlateauDen}
    /\ lowestLoss = 0
    /\ twin = NoTwin
    /\ NoFanOut
    /\ NoLoss /\ NoProcess /\ NoKeep /\ NoBatch
    /\ NoUpdateInput

NextLearn ==
    \/ InitLayers
    \/ ShuffleDataDefined
    \/ Standardize
    \/ CheckLastLayer
    \/ Baseline
    \/ LoopTest
    \/ PerformeOneEpoch
    \/ ComputeLoss
    \/ DivergenceCheck
    \/ EarlyStopping
    \/ LoadSaved

SpecLearn == InitLearn /\ [][NextLearn]_vars

\* the loop of learn is over: by its test, by the break or by return false
LoopOver == pc \in {"restore", "returned"}

\* the last epoch the loop executed: computeLoss has pushed one entry for
\* the baseline and one per epoch
LastEpoch == Len(_validLosses) - 1

\* each validation loss is a number below the one before
StrictlyDecreasing(s) == \A i \in 1..(Len(s) - 1) : Less(s[i + 1], s[i])

\* each validation loss is below the one before times the plateau
EveryEpochImproves ==
    \A i \in 1..(Len(_validLosses) - 1) :
        Improves(_validLosses[i + 1], _validLosses[i], _plateau)

HasNaN(s) == \E i \in 1..Len(s) : IsNaN(s[i])

C4_StopsAtPatience ==
    (LoopOver /\ _optimalEpoch + _patience + 1 < _maxEpoch) =>
        LastEpoch = _optimalEpoch + _patience + 1

\* C4 amended: the same when the loop ended otherwise than by return false
\* on a NaN loss.
C4_StopsAtPatienceUnlessNaN ==
    (LoopOver /\ result # "false" /\ _optimalEpoch + _patience + 1 < _maxEpoch) =>
        (LastEpoch = _optimalEpoch + _patience + 1 /\ _epoch = LastEpoch)

\* learn returned true after an improvement at epoch 1 or later and a
\* patience of 1 or more ran out before the cap
C4_Witness ==
    /\ result = "true"
    /\ _optimalEpoch >= 1
    /\ _patience >= 1
    /\ _optimalEpoch + _patience + 1 < _maxEpoch

\* C5: when a recorded train or validation loss is NaN, at whatever index,
\* learn returns false.
C5_NaNReturnsFalse ==
    (pc = "returned" /\ (HasNaN(_trainLosses) \/ HasNaN(_validLosses))) =>
        result = "false"

\* C6: when learn returns true, every layer holds the weights it had when
\* the losses of epoch _optimalEpoch were computed, _optimalEpoch = 0
\* included.
C6_RestoresOptimalWeights ==
    (pc = "returned" /\ result = "true") =>
        \A l \in Layers : weights[l] = epochWeights[_optimalEpoch + 1][l]

\* C7: with a last layer whose size differs from the outputs' length, learn
\* neither returns true nor false, computes no baseline loss, runs no batch
\* and updates no weight: it goes from standardize to the throw.
C7_MismatchThrowsBeforeTraining ==
    layerSize[Len(layerSize)] # outputSize =>
        /\ result \notin {"true", "false"}
        /\ pc \in {"start", "initialized", "partitioned", "standardized", "thrown"}
        /\ pc = "thrown" <=> result = "throw"
        /\ _trainLosses = <<>> /\ _validLosses = <<>>
        /\ \A l \in Layers : weights[l].updates = 0 /\ savedWeights[l] = EmptyCheckpoint
        /\ _epoch = 0

\* learn has thrown on a network of two layers whose first layer has the
\* outputs' length
C7_Witness ==
    /\ pc = "thrown"
    /\ result = "throw"
    /\ Len(layerSize) = 2
    /\ layerSize[1] = outputSize

\* C8: when learn throws the size error, no layer's weights are initialized
\* and the raw dataset is as setData stored it: not shuffled, not
\* partitioned, not standardized.
C8_ThrowBeforeAnyComputation ==
    pc = "thrown" =>
        /\ \A l \in Layers : weights[l] = NoWeights
        /\ _rawData = Rows(dataSize)
        /\ _trainData = <<>> /\ _validationData = <<>> /\ _testData = <<>>
        /\ _generator = Mt19937(_seed)
        /\ ~standardized

(***************************************************************************)
(* The operations of a Layer.  The calling thread hands the neurons to     *)
(* tasks and waits for them.  Layer.hh starts one std::thread per range of *)
(* neurons; Layer.cpp enqueues one task per neuron on the ThreadPool, which *)
(* runs at most nthreads of them at a time, in the order enqueued.  Every  *)
(* task of processToLearn is given the Network's generator by reference.   *)
(* A draw reads the generator's state and writes the advanced state back:  *)
(* two steps, since nothing makes operator() of std::mt19937 atomic.  The  *)
(* same holds for grad(j) += neuronGrad(j) in the tasks of getGradients.   *)
(***************************************************************************)

\* the thread that runs learn and calls the Layer's operations
Orchestrator == 0

\* the loop of Layer::Layer that settles _localNThread and _neuronPerThread
RECURSIVE SettleThreads(_, _, _)
SettleThreads(n, local, per) ==
    IF local = 0 THEN [local |-> 0, per |-> per]
    ELSE IF per > 0 THEN [local |-> local, per |-> per]
    ELSE SettleThreads(n, local - 1, n \div local)

\* _localNThread and _neuronPerThread of a layer of n neurons
LayerThreads(n, nt) == SettleThreads(n, nt, n \div nt)

\* the ranges [beg, end) the std::threads of Layer.hh are given
ThreadRanges(n, nt) ==
    LET s == LayerThreads(n, nt)
    IN [t \in 1..s.local |->
           [beg |-> s.per * (t - 1),
            end |-> IF t # s.local THEN s.per * t ELSE n]]

\* the tasks Layer.cpp enqueues: one per neuron
PoolRanges(n) == [t \in 1..n |-> [beg |-> t - 1, end |-> t]]

NewTask(r, at) == [beg |-> r.beg, end |-> r.end, i |-> r.beg, j |-> 0,
                   at |-> at, g |-> 0]

\* the neurons of the layer, as the tasks index them
Neurons == 0..(layerSize[1] - 1)

\* the first step of a task of each operation
FirstStep(o) ==
    CASE o \in {"process", "processToLearn"} -> "store"
      [] o \in {"computeGradients", "updateWeights"} -> "neuron"
      [] OTHER -> "add"

\* the tasks an operation creates: threads that run at once, or tasks
\* queued on the pool
FanOut(o) ==
    LET n == layerSize[1]
        ranges == IF pooled THEN PoolRanges(n) ELSE ThreadRanges(n, nthreads)
    IN [t \in DOMAIN ranges |->
           NewTask(ranges[t], IF pooled THEN "queued" ELSE FirstStep(o))]

\* a task is on a thread
Running(t) == tasks[t].at \notin {"queued", "done"}

\* the loops of performProcess and performProcessToLearn: the next row,
\* then the next neuron
NextCell(task) ==
    IF task.j + 1 < batchRows
    THEN [task EXCEPT !.j = @ + 1, !.at = "store"]
    ELSE IF task.i + 1 < task.end
         THEN [task EXCEPT !.i = @ + 1, !.j = 0, !.at = "store"]
         ELSE [task EXCEPT !.at = "done"]

\* the loop of performComputeGradients and performUpdateWeights
NextNeuron(task) ==
    IF task.i + 1 < task.end
    THEN [task EXCEPT !.i = @ + 1]
    ELSE [task EXCEPT !.at = "done"]

\* dropoutDist(dropGen) on the generator state g: the value drawn
Bernoulli(g) == (GenNext(g) % DropoutDen) < _dropout

\* what an operation does before its join loop, but for its tasks
Called(o) ==
    /\ lpc = "call"
    /\ op = o
    /\ lpc' = "join"
    /\ joined' = 0
    /\ visits' = [i \in Neurons |-> 0]
    /\ UNCHANGED <<restVars, pc, result, netVars, layerVars, learnVars, twin, fanParams,
                   op, drawnBy>>

\* processToLearn up to its join loop: the output of zeros and the tasks
ProcessToLearn ==
    /\ Called("processToLearn")
    /\ tasks' = FanOut("processToLearn")
    /\ output' = [c \in (0..(batchRows - 1)) \X Neurons |-> "zero"]
    /\ UNCHANGED grad

\* process up to its join loop
Process ==
    /\ Called("process")
    /\ tasks' = FanOut("process")
    /\ output' = [c \in (0..(batchRows - 1)) \X Neurons |-> "zero"]
    /\ UNCHANGED grad

\* computeGradients up to its join loop
ComputeGradients ==
    /\ Called("computeGradients")
    /\ tasks' = FanOut("computeGradients")
    /\ UNCHANGED <<output, grad>>

\* updateWeights up to its join loop
UpdateWeights ==
    /\ Called("updateWeights")
    /\ tasks' = FanOut("updateWeights")
    /\ UNCHANGED <<output, grad>>

\* the gradient neuron i returns for input j
NeuronGrad(i, j) == 2 ^ i

RECURSIVE SumGrad(_, _)
SumGrad(n, j) == IF n = 0 THEN 0 ELSE NeuronGrad(n - 1, j) + SumGrad(n - 1, j)

\* getGradients of Layer.hh: the calling thread sums the neurons' gradients
\* itself, one neuron after the other
GetGradientsSequential ==
    /\ lpc = "call"
    /\ op = "getGradients"
    /\ ~pooled
    /\ grad' = [j \in 0..(_inputSize - 1) |-> SumGrad(layerSize[1], j)]
    /\ visits' = [i \in Neurons |-> 1]
    /\ tasks' = <<>>
    /\ joined' = 0
    /\ lpc' = "returned"
    /\ UNCHANGED <<restVars, pc, result, netVars, layerVars, learnVars, twin, fanParams,
                   op, output, drawnBy>>

\* getGradients of Layer.cpp up to its join loop: grad of zeros and one
\* task per neuron
GetGradientsPooled ==
    /\ Called("getGradients")
    /\ pooled
    /\ grad' = [j \in 0..(_inputSize - 1) |-> 0]
    /\ tasks' = FanOut("getGradients")
    /\ UNCHANGED output

\* a thread of the pool takes the task at the head of the queue
TaskStart(t) ==
    /\ lpc = "join"
    /\ tasks[t].at = "queued"
    /\ \A u \in 1..(t - 1) : tasks[u].at # "queued"
    /\ Cardinality({u \in DOMAIN tasks : Running(u)}) < nthreads
    /\ tasks' = [tasks EXCEPT ![t].at = FirstStep(op)]
    /\ UNCHANGED <<restVars, pc, result, netVars, layerVars, learnVars, twin, fanParams,
                   op, lpc, joined, output, grad, visits, drawnBy>>

\* output[j][i] = result[j]; and, in processToLearn, the test
\* dropout > epsilon.  The neuron is called once, before its first row.
TaskStore(t) ==
    /\ lpc = "join"
    /\ tasks[t].at = "store"
    /\ output' = [output EXCEPT ![<<tasks[t].j, tasks[t].i>>] = "result"]
    /\ visits' = IF tasks[t].j = 0
                 THEN [visits EXCEPT ![tasks[t].i] = @ + 1]
                 ELSE visits
    /\ tasks' = [tasks EXCEPT ![t] = IF op = "processToLearn" /\ _dropout > 0
                                     THEN [@ EXCEPT !.at = "draw"]
                                     ELSE NextCell(@)]
    /\ UNCHANGED <<restVars, pc, result, netVars, layerVars, learnVars, twin, fanParams,
                   op, lpc, joined, grad, drawnBy>>

\* dropoutDist(dropGen), first half: the task reads the generator's state
TaskDrawRead(t) ==
    /\ lpc = "join"
    /\ tasks[t].at = "draw"
    /\ tasks' = [tasks EXCEPT ![t].at = "drawn", ![t].g = _generator]
    /\ drawnBy' = drawnBy \cup {t}
    /\ UNCHANGED <<restVars, pc, result, netVars, layerVars, learnVars, twin, fanParams,
                   op, lpc, joined, output, grad, visits>>

\* dropoutDist(dropGen), second half: the task writes the advanced state
\* back, and zeroes or scales its output by the value drawn
TaskDrawWrite(t) ==
    /\ lpc = "join"
    /\ tasks[t].at = "drawn"
    /\ _generator' = GenNext(tasks[t].g)
    /\ output' = [output EXCEPT ![<<tasks[t].j, tasks[t].i>>] =
                     IF Bernoulli(tasks[t].g) THEN "dropped" ELSE "scaled"]
    /\ tasks' = [tasks EXCEPT ![t] = NextCell([@ EXCEPT !.g = 0])]
    /\ UNCHANGED <<restVars, pc, result, seed, _seed, _batchSize, _validationRatio,
                   _testRatio, _rawData, _trainData, _validationData, _testData,
                   _nbBatch, popEmpty, dataSize, layerVars, learnVars, twin,
                   fanParams, op, lpc, joined, grad, visits, drawnBy>>

\* _neurons[i].computeGradients(...) or _neurons[i].updateWeights(...): the
\* task calls neuron i, which touches its own state only
TaskNeuron(t) ==
    /\ lpc = "join"
    /\ tasks[t].at = "neuron"
    /\ visits' = [visits EXCEPT ![tasks[t].i] = @ + 1]
    /\ tasks' = [tasks EXCEPT ![t] = NextNeuron(@)]
    /\ UNCHANGED <<restVars, pc, result, netVars, layerVars, learnVars, twin, fanParams,
                   op, lpc, joined, output, grad, drawnBy>>

\* grad(j) += neuronGrad(j), first half: the task reads grad(j); it has
\* called its neuron before the first j
TaskAddRead(t) ==
    /\ lpc = "join"
    /\ tasks[t].at = "add"
    /\ tasks' = [tasks EXCEPT ![t].at = "added", ![t].g = grad[tasks[t].j]]
    /\ visits' = IF tasks[t].j = 0
                 THEN [visits EXCEPT ![tasks[t].i] = @ + 1]
                 ELSE visits
    /\ UNCHANGED <<restVars, pc, result, netVars, layerVars, learnVars, twin, fanParams,
                   op, lpc, joined, output, grad, drawnBy>>

\* grad(j) += neuronGrad(j), second half: the task writes the sum back and
\* goes to the next j
TaskAddWrite(t) ==
    /\ lpc = "join"
    /\ tasks[t].at = "added"
    /\ grad' = [grad EXCEPT ![tasks[t].j] =
                   tasks[t].g + NeuronGrad(tasks[t].i, tasks[t].j)]
    /\ tasks' = [tasks EXCEPT ![t] =
                    IF @.j + 1 < _inputSize
                    THEN [@ EXCEPT !.j = @ + 1, !.at = "add", !.g = 0]
                    ELSE [@ EXCEPT !.at = "done", !.g = 0]]
    /\ UNCHANGED <<restVars, pc, result, netVars, layerVars, learnVars, twin, fanParams,
                   op, lpc, joined, output, visits, drawnBy>>

\* a join loop that leaves its last task out
JoinAllButLast(ts) == Len(ts) - 1

\* the bound of the join loop: i < threads.size(), i < tasks.size()
JoinCount(ts) == Len(ts)

\* threads[i].join(), tasks[i].get(): the calling thread waits for task i
JoinTask ==
    /\ lpc = "join"
    /\ joined < JoinCount(tasks)
    /\ tasks[joined + 1].at = "done"
    /\ joined' = joined + 1
    /\ UNCHANGED <<restVars, pc, result, netVars, layerVars, learnVars, twin, fanParams,
                   op, lpc, tasks, output, grad, visits, drawnBy>>

\* the join loop is over: the operation returns
JoinTasks ==
    /\ lpc = "join"
    /\ joined = JoinCount(tasks)
    /\ lpc' = "returned"
    /\ UNCHANGED <<restVars, pc, result, netVars, layerVars, learnVars, twin, fanParams,
                   op, joined, tasks, output, grad, visits, drawnBy>>

\* the operations the Network calls on a layer for one batch, then process
\* for the losses of the epoch
Operations == <<"processToLearn", "computeGradients", "getGradients",
                "updateWeights", "process">>

OperationIndex(o) == CHOOSE k \in 1..Len(Operations) : Operations[k] = o

\* the Network goes on to its next call on the layer; the matrix the
\* operation returned was a local of the operation
NextOperation ==
    /\ lpc = "returned"
    /\ OperationIndex(op) < Len(Operations)
    /\ op' = Operations[OperationIndex(op) + 1]
    /\ lpc' = "call"
    /\ output' = <<>>
    /\ grad' = <<>>
    /\ UNCHANGED <<restVars, pc, result, netVars, layerVars, learnVars, twin, fanParams,
                   joined, tasks, visits, drawnBy>>

(***************************************************************************)
(* The first epoch of learn is at a batch, and performeOneEpoch calls      *)
(* processToLearn of the one layer of the network.  The thread version is  *)
(* given the batch's rows, the pool version one row.                       *)
(***************************************************************************)
InitLayer ==
    /\ \E n \in (MaxRows - 1)..MaxRows, b \in 1..MaxBatchRows :
          LET r == ShuffleDataRun(Rows(n), Mt19937(1), b, 1, 1)
          IN /\ WholeBatches(n, b, 1, 1, Mt19937(1))
             /\ seed = 1
             /\ _seed = SeedOf(1, 1)
             /\ _generator = r.gen
             /\ _batchSize = b
             /\ _validationRatio = 1
             /\ _testRatio = 1
             /\ _rawData = <<>>
             /\ dataSize = n
             /\ _trainData = r.train
             /\ _validationData = r.valid
             /\ _testData = r.test
             /\ _nbBatch = r.nbBatch
             /\ pooled \in BOOLEAN
             /\ batchRows = IF pooled THEN 1 ELSE b
    /\ popEmpty = FALSE
    /\ \E n \in 1..MaxNeurons :
          /\ layerSize = <<n>>
          /\ outputSize = n
    /\ weights = <<InitialWeights>>
    /\ savedWeights = <<EmptyCheckpoint>>
    /\ standardized = TRUE
    /\ _maxEpoch = 2
    /\ _patience = 0
    /\ _plateau = PlateauDen
    /\ _epoch = 1
    /\ _optimalEpoch = 0
    /\ lowestLoss = 1
    /\ _trainLosses = <<1>>
    /\ _validLosses = <<1>>
    /\ _testMetric = <<"metric">> /\ _testSecondMetric = <<"metric">>
    /\ epochWeights = <<weights>>
    /\ pc = "epoch"
    /\ result = "none"
    /\ twin = NoTwin
    /\ nthreads \in 1..MaxThreads
    /\ _dropout \in 0..(DropoutDen - 1)
    /\ _inputSize \in 1..MaxInputs
    /\ op = "processToLearn"
    /\ lpc = "call"
    /\ joined = 0
    /\ tasks = <<>>
    /\ output = <<>>
    /\ grad = <<>>
    /\ visits = <<>>
    /\ drawnBy = {}
    /\ NoLoss /\ NoProcess /\ NoKeep /\ NoBatch
    /\ NoUpdateInput

NextLayer ==
    \/ ProcessToLearn
    \/ Process
    \/ ComputeGradients
    \/ UpdateWeights
    \/ GetGradientsSequential
    \/ GetGradientsPooled
    \/ \E t \in DOMAIN tasks : TaskStart(t)
    \/ \E t \in DOMAIN tasks : TaskStore(t)
    \/ \E t \in DOMAIN tasks : TaskDrawRead(t)
    \/ \E t \in DOMAIN tasks : TaskDrawWrite(t)
    \/ \E t \in DOMAIN tasks : TaskNeuron(t)
    \/ \E t \in DOMAIN tasks : TaskAddRead(t)
    \/ \E t \in DOMAIN tasks : TaskAddWrite(t)
    \/ JoinTask
    \/ JoinTasks
    \/ NextOperation

SpecLayer == InitLayer /\ [][NextLayer]_vars

\* the tasks that have read the generator's state and not yet written it back
Drawing == {t \in DOMAIN tasks : tasks[t].at = "drawn"}

\* C10: during processToLearn only the orchestrating thread draws from the
\* generator: no task reads or advances it, and no two draws are under way
\* at the same time.
C10_OnlyOrchestratorDraws ==
    /\ drawnBy \subseteq {Orchestrator}
    /\ Cardinality(Drawing) <= 1

\* the tasks of getGradients that have read the same grad(j) and not yet
\* written it back
AddingTo(j) == {t \in DOMAIN tasks : tasks[t].at = "added" /\ tasks[t].j = j}

\* C11: getGradients returns, for every input j, the sum over the neurons of
\* their gradients for j, and no two tasks are between the read and the
\* write of the same grad(j) at the same time.
C11_GradientsAreSums ==
    /\ (op = "getGradients" /\ lpc = "returned") =>
          \A j \in 0..(_inputSize - 1) : grad[j] = SumGrad(layerSize[1], j)
    /\ \A j \in 0..(MaxInputs - 1) : Cardinality(AddingTo(j)) <= 1

\* C12: the ranges the tasks of an operation are given are contiguous from 0
\* to the number of neurons, and when the operation returns every neuron
\* has been called exactly once.
C12_RangesCoverNeurons ==
    /\ (lpc = "join" /\ ~pooled) =>
          /\ Len(tasks) >= 1
          /\ tasks[1].beg = 0
          /\ tasks[Len(tasks)].end = layerSize[1]
          /\ \A t \in 1..(Len(tasks) - 1) : tasks[t].end = tasks[t + 1].beg
          /\ \A t \in 1..Len(tasks) : tasks[t].beg < tasks[t].end
    /\ lpc = "returned" => \A i \in Neurons : visits[i] = 1

\* C13: an operation has returned, or the next one is called, only with
\* every task the operation created done; and the join loop has passed
\* only tasks that are done.
C13_ReturnsAfterTasks ==
    /\ lpc \in {"returned", "call"} =>
          \A t \in DOMAIN tasks : tasks[t].at = "done"
    /\ lpc = "join" => \A t \in 1..joined : tasks[t].at = "done"

\* the Network calls getGradients after the two threads of computeGradients
\* have each been through a range of neurons
C13_Witness ==
    /\ lpc = "call"
    /\ op = "getGradients"
    /\ Len(tasks) = 2
    /\ \A t \in DOMAIN tasks : tasks[t].at = "done"
    /\ \A i \in Neurons : visits[i] = 1
    /\ layerSize[1] = MaxNeurons

\* the early stopping block of an epoch takes the checkpoint, replaces
\* lowestLoss and sets _optimalEpoch exactly when the epoch's validation
\* loss is below lowestLoss times the plateau, and leaves the three alone
\* otherwise
CheckpointIffBelowPlateau ==
    pc = "earlyStopping" =>
        LET v == _validLosses[Len(_validLosses)]
        IN IF v # NaN /\ lowestLoss # NaN
              /\ v * PlateauDen < lowestLoss * _plateau
           THEN /\ savedWeights' = weights
                /\ lowestLoss' = v
                /\ _optimalEpoch' = _epoch
           ELSE /\ savedWeights' = savedWeights
                /\ lowestLoss' = lowestLoss
                /\ _optimalEpoch' = _optimalEpoch

\* outside the early stopping block nothing touches the three
CheckpointOnlyInEarlyStopping ==
    pc \notin {"earlyStopping", "baseline"} =>
        /\ savedWeights' = savedWeights
        /\ lowestLoss' = lowestLoss
        /\ _optimalEpoch' = _optimalEpoch

\* lowestLoss, once set by the baseline, does not become a larger number
LowestLossNotRaised ==
    pc # "baseline" => ~(lowestLoss # NaN /\ lowestLoss' # NaN
                         /\ lowestLoss' > lowestLoss)

\* C21 as stated: the checkpoint, lowestLoss and _optimalEpoch change
\* together exactly when validLoss < lowestLoss * plateau, _optimalEpoch
\* never exceeds _epoch, and lowestLoss never increases, whatever the
\* plateau.
C21_CheckpointIffImproved ==
    /\ [][CheckpointIffBelowPlateau]_vars
    /\ [][CheckpointOnlyInEarlyStopping]_vars
    /\ [](_optimalEpoch <= _epoch)
    /\ [][LowestLossNotRaised]_vars

\* C21 amended: the same, lowestLoss never increasing when the plateau is
\* at most 1 and the losses are not negative.
C21_CheckpointIffImprovedPlateauAtMostOne ==
    /\ [][CheckpointIffBelowPlateau]_vars
    /\ [][CheckpointOnlyInEarlyStopping]_vars
    /\ [](_optimalEpoch <= _epoch)
    /\ [][_plateau <= PlateauDen => LowestLossNotRaised]_vars

\* epoch 1 did not improve on the baseline, epoch 2 did and took the
\* checkpoint, under a plateau below 1
C21_Witness ==
    /\ pc = "loopTest"
    /\ _epoch = 3
    /\ _optimalEpoch = 2
    /\ _plateau < PlateauDen
    /\ _validLosses[2] >= _validLosses[1]
    /\ lowestLoss = _validLosses[3]
    /\ lowestLoss < _validLosses[1]
    /\ \A l \in Layers : savedWeights[l] = weights[l]

\* the steps of learn after shuffleData
AfterShuffleData ==
    \/ Standardize
    \/ CheckLastLayer
    \/ Baseline
    \/ LoopTest
    \/ PerformeOneEpoch
    \/ ComputeLoss
    \/ DivergenceCheck
    \/ EarlyStopping
    \/ LoadSaved

\* learn, every step of which after shuffleData is taken once it can be:
\* learn runs on one thread that nothing suspends
SpecLearnFair == SpecLearn /\ WF_vars(AfterShuffleData)

\* C23: learn, once past shuffleData, terminates, by a return or by the
\* throw of the size test;
\* _epoch goes up by one at a time from 1; every epoch executed has a number
\* in 1.._maxEpoch - 1, so at most _maxEpoch - 1 of them are; and when the
\* losses of epoch e are computed every layer has been updated _nbBatch
\* times per epoch, whatever the losses are.
C23_LearnTerminates ==
    /\ (pc = "partitioned") ~> (pc \in {"returned", "thrown"})
    /\ [][_epoch' = _epoch \/ _epoch' = _epoch + 1]_vars
    /\ [](\A e \in 1..(Len(_validLosses) - 1) : e <= _maxEpoch - 1)
    /\ [](pc \in {"epoch", "computeLoss", "divergence", "earlyStopping"} =>
            (1 <= _epoch /\ _epoch <= _maxEpoch - 1))
    /\ [](\A k \in DOMAIN epochWeights : \A l \in Layers :
            epochWeights[k][l].updates = _nbBatch * (k - 1))

\* learn returned true after all the epochs the largest cap allows, with
\* more than one batch in each
C23_Witness ==
    /\ pc = "returned"
    /\ result = "true"
    /\ _maxEpoch = MaxEpochCap
    /\ Len(_validLosses) = MaxEpochCap
    /\ _nbBatch >= 2
    /\ \A l \in Layers :
          epochWeights[MaxEpochCap][l].updates = _nbBatch * (MaxEpochCap - 1)

\* C24: the baseline loss is computed on initialized layers that no
\* updateWeights has touched, after shuffleData and standardize; it is the
\* first entry of the two histories and it is what lowestLoss holds until an
\* epoch improves on it.
C24_BaselineBeforeUpdates ==
    /\ [][pc = "baseline" =>
            /\ \A l \in Layers : weights[l].set /\ weights[l].updates = 0
            /\ _rawData = <<>> /\ _trainData # <<>>
            /\ standardized
            /\ _trainLosses = <<>> /\ _validLosses = <<>>
            /\ Len(_trainLosses') = 1 /\ Len(_validLosses') = 1
            /\ lowestLoss' = _validLosses'[1]
            /\ weights' = weights]_vars
    /\ [](\A l \in Layers :
            weights[l].updates > 0 => Len(_validLosses) >= 1)
    /\ []((Len(_validLosses) >= 1 /\ _optimalEpoch = 0) =>
            lowestLoss = _validLosses[1])

\* the baseline of a network of two layers is recorded and the first epoch
\* of several batches has run
C24_Witness ==
    /\ pc = "computeLoss"
    /\ _epoch = 1
    /\ Len(_validLosses) = 1
    /\ lowestLoss = _validLosses[1]
    /\ lowestLoss # NaN
    /\ Len(layerSize) = 2
    /\ _nbBatch >= 2
    /\ \A l \in Layers : weights[l].updates = _nbBatch

\* C27: in learn the four histories have the same length; from the
\* baseline on it is the number of epochs whose losses are computed plus
\* one, so that _trainLosses[_epoch] in the NaN test and
\* _testMetric[_optimalEpoch] after the restore are entries of the
\* histories.
C27_HistoriesSameLength ==
    /\ Len(_trainLosses) = Len(_validLosses)
    /\ Len(_testMetric) = Len(_validLosses)
    /\ Len(_testSecondMetric) = Len(_validLosses)
    /\ pc \in {"start", "initialized", "partitioned", "standardized",
               "baseline", "thrown"} => Len(_validLosses) = 0
    /\ pc \in {"loopTest", "epoch", "computeLoss"} => Len(_validLosses) = _epoch
    /\ pc \in {"divergence", "earlyStopping"} => Len(_validLosses) = _epoch + 1
    /\ pc = "divergence" => _epoch < Len(_trainLosses)
    /\ pc \in {"restore", "returned"} =>
          /\ Len(_validLosses) >= 1
          /\ _optimalEpoch < Len(_testMetric)
          /\ _optimalEpoch < Len(_testSecondMetric)
          /\ \A l \in Layers :
                epochWeights[Len(epochWeights)][l].updates
                    = _nbBatch * (Len(_validLosses) - 1)

\* learn is at its restore after two epochs, the first of them the optimal
\* one
C27_Witness ==
    /\ pc = "restore"
    /\ Len(_testMetric) = 3
    /\ Len(_testSecondMetric) = 3
    /\ Len(_trainLosses) = 3
    /\ _optimalEpoch = 1

\* C28: when learn returns true, the validation losses all being numbers
\* that are not negative and the plateau at most 1, the loss of
\* _optimalEpoch is at most the loss of every epoch before it, and every
\* epoch executed after it has a loss of at least plateau times that of
\* _optimalEpoch.
C28_OptimalEpochIsLowest ==
    (pc = "returned" /\ result = "true" /\ _plateau <= PlateauDen
        /\ \A k \in DOMAIN _validLosses :
              _validLosses[k] # NaN /\ _validLosses[k] >= 0) =>
        /\ \A e \in 0..(_optimalEpoch - 1) :
              _validLosses[_optimalEpoch + 1] <= _validLosses[e + 1]
        /\ \A e \in (_optimalEpoch + 1)..(Len(_validLosses) - 1) :
              _validLosses[e + 1] * PlateauDen
                  >= _plateau * _validLosses[_optimalEpoch + 1]

\* learn returned true with epoch 2 of 3 the optimal one, under a plateau
\* below 1, the loss of epoch 3 above that of epoch 2
C28_Witness ==
    /\ pc = "returned"
    /\ result = "true"
    /\ _plateau < PlateauDen
    /\ _optimalEpoch = 2
    /\ Len(_validLosses) = 4
    /\ \A k \in DOMAIN _validLosses : _validLosses[k] # NaN
    /\ _validLosses[3] < _validLosses[1]
    /\ _validLosses[3] < _validLosses[2]
    /\ _validLosses[4] > _validLosses[3]

\* C29: when learn has returned false the layers hold the weights the
\* losses of the diverged epoch were computed on, _nbBatch updates per epoch
\* run, and not those of the checkpoint; _optimalEpoch is the epoch of the
\* last checkpoint and the histories end with the losses of the diverged
\* epoch.
C29_NoRestoreOnNaN ==
    result = "false" =>
        /\ \A l \in Layers :
              /\ weights[l] = epochWeights[Len(epochWeights)][l]
              /\ weights[l].updates = _nbBatch * _epoch
              /\ weights[l] # savedWeights[l]
        /\ _optimalEpoch < _epoch
        /\ \A l \in Layers :
              savedWeights[l].set =>
                  savedWeights[l] = epochWeights[_optimalEpoch + 1][l]
        /\ Len(_trainLosses) = _epoch + 1
        /\ \/ _trainLosses[_epoch + 1] = NaN
           \/ _validLosses[_epoch + 1] = NaN
        /\ \A k \in 2.._epoch :
              _trainLosses[k] # NaN /\ _validLosses[k] # NaN

\* learn returned false at epoch 2 on a NaN validation loss, the checkpoint
\* being that of epoch 1
C29_Witness ==
    /\ result = "false"
    /\ _epoch = 2
    /\ _optimalEpoch = 1
    /\ _validLosses[3] = NaN
    /\ _trainLosses[3] # NaN
    /\ \A l \in Layers :
          /\ savedWeights[l].updates = _nbBatch
          /\ weights[l].updates = 2 * _nbBatch

\* the losses computeLoss pushed last are those of an epoch, and one is NaN
NaNAtEpochEnd ==
    /\ pc = "divergence"
    /\ \/ _trainLosses[Len(_trainLosses)] = NaN
       \/ _validLosses[Len(_validLosses)] = NaN

\* C18: when the train or the validation loss computed at the end of an
\* epoch is NaN, the next step of learn is return false, with the weights,
\* the checkpoint and _epoch as they were; once learn has returned false
\* nothing more happens: no batch, no checkpoint, no epoch.
C18_NaNAbortsAtOnce ==
    /\ [][NaNAtEpochEnd =>
            /\ pc' = "returned" /\ result' = "false"
            /\ weights' = weights /\ savedWeights' = savedWeights
            /\ _epoch' = _epoch /\ _optimalEpoch' = _optimalEpoch
            /\ _trainLosses' = _trainLosses /\ _validLosses' = _validLosses]_vars
    /\ [][result # "false"]_vars
    /\ [](result = "false" =>
            /\ pc = "returned"
            /\ Len(_validLosses) = _epoch + 1
            /\ \A l \in Layers : weights[l].updates = _nbBatch * _epoch)

\* learn returned false at epoch 2 on a NaN train loss with a validation
\* loss that is a number, after a checkpoint at epoch 1 and with epochs left
\* under the cap
C18_Witness ==
    /\ result = "false"
    /\ _epoch = 2
    /\ _trainLosses[3] = NaN /\ _validLosses[3] # NaN
    /\ _optimalEpoch = 1
    /\ _maxEpoch > 3

\* C26: when processToLearn returns with dropout > 0, every neuron's
\* entries of the output, one per row of the batch, are all zeroed or all
\* scaled by 1 / (1 - dropout); with dropout = 0 every entry is the
\* neuron's result and no draw was made.
C26_DropoutPerNeuron ==
    (op = "processToLearn" /\ lpc = "returned") =>
        IF _dropout > 0
        THEN \A i \in Neurons :
                \/ \A j \in 0..(batchRows - 1) : output[<<j, i>>] = "dropped"
                \/ \A j \in 0..(batchRows - 1) : output[<<j, i>>] = "scaled"
        ELSE /\ \A c \in DOMAIN output : output[c] = "result"
             /\ drawnBy = {}

(***************************************************************************)
(* The loss functions of cost.hh.  A matrix is a sequence of lines, each a *)
(* sequence of elements; an element is a number 0..MaxValue or NaN.  The   *)
(* functions size their two results from `real` and read `predicted` at    *)
(* the same indices.  Matrix::operator[] is not part of these files: a     *)
(* read outside `predicted` either stops the call or yields some element.  *)
(***************************************************************************)
Losses == {"L1", "L2", "CrossEntropy", "BinaryCrossEntropy"}

Elements == 0..MaxValue \cup {NaN}

\* the matrices of the model: lines x columns, every line the same
Matrices ==
    UNION {{[i \in 1..l |-> v] : v \in [1..c -> Elements]} :
              l \in 1..MaxLines, c \in 1..MaxColumns}

Lines(m) == Len(m)

Columns(m) == Len(m[1])

SameShape(a, b) == Lines(a) = Lines(b) /\ Columns(a) = Columns(b)

\* predicted[i][j] exists
InPredicted(p, i, j) == i <= Lines(p) /\ j <= Columns(p)

\* L1Loss with the sign of its gradient reversed
L1GradientReversed(r, p) ==
    IF Less(r, p) THEN 1 ELSE IF Less(p, r) THEN -1 ELSE 0

\* the gradient element of L1Loss: the two tests on real and predicted
L1Gradient(r, p) ==
    IF Less(r, p) THEN -1 ELSE IF Less(p, r) THEN 1 ELSE 0

\* std::abs(real - predicted)
L1LossElement(r, p) ==
    IF IsNaN(r) \/ IsNaN(p) THEN NaN
    ELSE IF r < p THEN p - r ELSE r - p

\* the loss and gradient elements of the four functions for one index; those
\* of L2Loss and of the two cross entropies are kept as terms
LossElement(kind, r, p) ==
    IF kind = "L1" THEN L1LossElement(r, p)
    ELSE [loss |-> kind, real |-> r, predicted |-> p]

GradientElement(kind, r, p) ==
    IF kind = "L1" THEN L1Gradient(r, p)
    ELSE [gradient |-> kind, real |-> r, predicted |-> p]

\* the pair a loss function returns, `read` being what each read of
\* predicted[i][j] gave
LossPair(kind, r, read) ==
    [outcome |-> "returned",
     loss |-> [i \in 1..Lines(r) |-> [j \in 1..Columns(r) |->
                  LossElement(kind, r[i][j], read[i][j])]],
     gradients |-> [i \in 1..Lines(r) |-> [j \in 1..Columns(r) |->
                  GradientElement(kind, r[i][j], read[i][j])]]]

\* predicted as the loops read it: its own elements inside, `outside` at
\* the indices it does not have
ReadOf(r, p, outside) ==
    [i \in 1..Lines(r) |-> [j \in 1..Columns(r) |->
        IF InPredicted(p, i, j) THEN p[i][j] ELSE outside]]

\* every read is inside predicted
ReadsInside(r, p) == Lines(r) <= Lines(p) /\ Columns(r) <= Columns(p)

\* what a call of a loss function can end with
LossOutcomes(kind, r, p) ==
    IF ReadsInside(r, p)
    THEN {LossPair(kind, r, ReadOf(r, p, 0))}
    ELSE {[outcome |-> "failed"]}
           \cup {LossPair(kind, r, ReadOf(r, p, e)) : e \in Elements}

\* Network::computeLossMatrix: the loss function of _loss is called
ComputeLossMatrix ==
    /\ lossPc = "call"
    /\ lossPair' \in LossOutcomes(_loss, real, predicted)
    /\ lossPc' = "returned"
    /\ UNCHANGED <<pc, result, netVars, layerVars, learnVars, twin, fanVars, updateVars,
                   _loss, real, predicted, processVars, keepVars, batchVars>>

\* a network built and trained, at a call of computeLossMatrix on two
\* matrices
InitLoss ==
    /\ Constructed(MaxRows, 1, 1, 1, 1, 1)
    /\ LayersAdded(<<1>>, 1)
    /\ _maxEpoch = 0 /\ _patience = 0 /\ _plateau = PlateauDen /\ lowestLoss = 0
    /\ twin = NoTwin
    /\ NoFanOut /\ NoProcess /\ NoKeep /\ NoBatch
    /\ NoUpdateInput
    /\ _loss \in Losses
    /\ real \in Matrices
    /\ predicted \in Matrices
    /\ lossPair = [outcome |-> "none"]
    /\ lossPc = "call"

NextLoss == ComputeLossMatrix

SpecLoss == InitLoss /\ [][NextLoss]_vars

\* C14: a loss function called with real and predicted of unequal shape
\* fails: it returns no pair.
C14_ShapeMismatchFails ==
    (lossPc = "returned" /\ ~SameShape(real, predicted)) =>
        lossPair.outcome = "failed"

\* C19: on matrices of equal shape L1Loss returns gradients of that shape,
\* each element 1 where real > predicted, -1 where real < predicted and 0
\* where they are equal, and a loss element |real - predicted|.
C19_L1GradientIsSign ==
    (lossPc = "returned" /\ _loss = "L1" /\ SameShape(real, predicted)) =>
        /\ lossPair.outcome = "returned"
        /\ SameShape(lossPair.gradients, real)
        /\ SameShape(lossPair.loss, real)
        /\ \A i \in 1..Lines(real), j \in 1..Columns(real) :
              LET r == real[i][j]
                  p == predicted[i][j]
                  g == lossPair.gradients[i][j]
                  l == lossPair.loss[i][j]
              IN /\ g \in {-1, 0, 1}
                 /\ (r # NaN /\ p # NaN /\ r > p) => (g = 1 /\ l = r - p)
                 /\ (r # NaN /\ p # NaN /\ r < p) => (g = -1 /\ l = p - r)
                 /\ (r # NaN /\ p # NaN /\ r = p) => (g = 0 /\ l = 0)

\* L1Loss has returned on two matrices of the largest shape, with a
\* gradient of 1 and a gradient of -1 in each line
C19_Witness ==
    /\ lossPc = "returned"
    /\ _loss = "L1"
    /\ Lines(real) = MaxLines /\ Columns(real) = MaxColumns
    /\ SameShape(real, predicted)
    /\ lossPair.outcome = "returned"
    /\ \A i \in 1..MaxLines :
          \E j, k \in 1..MaxColumns :
              lossPair.gradients[i][j] = 1 /\ lossPair.gradients[i][k] = -1

(***************************************************************************)
(* Network::process, and its two users: computeLoss, which reports the     *)
(* loss of the train and the validation set, and performeOneEpoch, which   *)
(* takes the loss of a batch from the output of processToLearn.  A matrix  *)
(* is the term of what was applied to it: the Layer calls it went through, *)
(* in order, and the number of times softmax was applied; Layer::process   *)
(* and softmax themselves are computed outside these files.                *)
(***************************************************************************)
RawInputs == [through |-> <<>>, softmax |-> 0]

\* the loss kinds whose name is a cross entropy
CrossEntropyBased == {"CrossEntropy", "BinaryCrossEntropy"}

\* softmax applied for every loss whose name is a cross entropy
AppliesSoftmaxCrossEntropyBased(loss) == loss \in CrossEntropyBased

\* if(_loss == Loss::CrossEntropy)
AppliesSoftmax(loss) == loss = "CrossEntropy"

\* softmax(m)
Softmax(m) == [m EXCEPT !.softmax = @ + 1]

\* the loss matrix computeLossMatrix returns for predicted:
\* crossEntropyLoss takes it against softmax(predicted), the three other
\* functions against predicted
LossOf(loss, p) ==
    [loss |-> loss,
     against |-> IF loss = "CrossEntropy" THEN Softmax(p) ELSE p]

\* layer i of the network, counted from 0, is the next to be applied
AtLayer(i) == ppc = "layers" /\ Len(inputs.through) = i /\ i < Len(layerSize)

\* inputs = _layers[i]->process(inputs, _pool);
ProcessLayer ==
    /\ caller \in {"process", "trainLoss", "validationLoss"}
    /\ \E i \in 0..(MaxLayers - 1) :
          /\ AtLayer(i)
          /\ inputs' = [inputs EXCEPT !.through = Append(@, <<"process", i>>)]
    /\ UNCHANGED <<pc, result, netVars, layerVars, learnVars, twin, fanVars, updateVars,
                   lossVars, caller, ppc, recorded, keepVars, batchVars>>

\* the end of process: softmax under the test on _loss, and the return
ProcessReturn ==
    /\ caller \in {"process", "trainLoss", "validationLoss"}
    /\ ppc = "layers"
    /\ Len(inputs.through) = Len(layerSize)
    /\ inputs' = IF AppliesSoftmax(_loss) THEN Softmax(inputs) ELSE inputs
    /\ ppc' = "processed"
    /\ UNCHANGED <<pc, result, netVars, layerVars, learnVars, twin, fanVars, updateVars,
                   lossVars, caller, recorded, keepVars, batchVars>>

\* computeLoss: the train loss from process on the train set, then process
\* on the validation set
ComputeLossTrain ==
    /\ caller = "trainLoss"
    /\ ppc = "processed"
    /\ recorded' = Append(recorded, [path |-> "trainLoss",
                                     loss |-> LossOf(_loss, inputs)])
    /\ caller' = "validationLoss"
    /\ inputs' = RawInputs
    /\ ppc' = "layers"
    /\ UNCHANGED <<pc, result, netVars, layerVars, learnVars, twin, fanVars, updateVars,
                   lossVars, keepVars, batchVars>>

\* computeLoss: the validation loss from process on the validation set
ComputeLossValidation ==
    /\ caller = "validationLoss"
    /\ ppc = "processed"
    /\ recorded' = Append(recorded, [path |-> "validationLoss",
                                     loss |-> LossOf(_loss, inputs)])
    /\ ppc' = "done"
    /\ UNCHANGED <<pc, result, netVars, layerVars, learnVars, twin, fanVars, updateVars,
                   lossVars, caller, inputs, keepVars, batchVars>>

\* performeOneEpoch: input = _layers[i]->processToLearn(input, ...);
BatchProcessToLearn ==
    /\ caller = "batch"
    /\ \E i \in 0..(MaxLayers - 1) :
          /\ AtLayer(i)
          /\ inputs' = [inputs EXCEPT
                           !.through = Append(@, <<"processToLearn", i>>)]
    /\ UNCHANGED <<pc, result, netVars, layerVars, learnVars, twin, fanVars, updateVars,
                   lossVars, caller, ppc, recorded, keepVars, batchVars>>

\* performeOneEpoch: computeLossMatrix(output, input) on the output of the
\* last processToLearn
BatchLoss ==
    /\ caller = "batch"
    /\ ppc = "layers"
    /\ Len(inputs.through) = Len(layerSize)
    /\ recorded' = Append(recorded, [path |-> "batch",
                                     loss |-> LossOf(_loss, inputs)])
    /\ ppc' = "done"
    /\ UNCHANGED <<pc, result, netVars, layerVars, learnVars, twin, fanVars, updateVars,
                   lossVars, caller, inputs, keepVars, batchVars>>

\* a trained network of 1..MaxLayers layers under one of the four losses, at
\* a call of process, of computeLoss or at a batch of performeOneEpoch
InitProcess ==
    /\ Constructed(MaxRows, 1, 1, 1, 1, 1)
    /\ \E L \in 1..MaxLayers :
          /\ layerSize = [l \in 1..L |-> 1]
          /\ weights = [l \in 1..L |-> InitialWeights]
          /\ savedWeights = [l \in 1..L |-> EmptyCheckpoint]
    /\ outputSize = 1
    /\ standardized = TRUE
    /\ epochWeights = <<>>
    /\ _maxEpoch = 0 /\ _patience = 0 /\ _plateau = PlateauDen /\ lowestLoss = 0
    /\ twin = NoTwin
    /\ NoFanOut /\ NoKeep /\ NoBatch
    /\ NoUpdateInput
    /\ _loss \in Losses
    /\ real = <<>> /\ predicted = <<>>
    /\ lossPair = [outcome |-> "none"]
    /\ lossPc = "idle"
    /\ caller \in {"process", "trainLoss", "batch"}
    /\ ppc = "layers"
    /\ inputs = RawInputs
    /\ recorded = <<>>

NextProcess ==
    \/ ProcessLayer
    \/ ProcessReturn
    \/ ComputeLossTrain
    \/ ComputeLossValidation
    \/ BatchProcessToLearn
    \/ BatchLoss

SpecProcess == InitProcess /\ [][NextProcess]_vars

\* C15: under CrossEntropy every loss taken, by computeLoss for its two
\* reports as by performeOneEpoch for a batch, is the cross entropy against
\* softmax applied exactly once to the raw output of the last layer.
C15_SoftmaxAppliedOnce ==
    _loss = "CrossEntropy" =>
        \A k \in DOMAIN recorded : recorded[k].loss.against.softmax = 1

\* C16 as stated: process returns the inputs passed through the layers
\* 0..L-1 in order, with softmax applied exactly when the loss is one of the
\* cross entropies.
C16_SoftmaxIffCrossEntropyBased ==
    (caller = "process" /\ ppc = "processed") =>
        /\ inputs.through = [l \in Layers |-> <<"process", l - 1>>]
        /\ inputs.softmax = IF _loss \in CrossEntropyBased THEN 1 ELSE 0

\* C16 amended: process returns the inputs passed through the layers 0..L-1
\* in order, with softmax applied once when the loss is CrossEntropy and not
\* at all under L1, L2 and BinaryCrossEntropy; no step of process changes a
\* weight, a checkpoint, a loss history or _epoch.
C16_SoftmaxIffCrossEntropy ==
    /\ []((caller = "process" /\ ppc = "processed") =>
            /\ inputs.through = [l \in Layers |-> <<"process", l - 1>>]
            /\ inputs.softmax = IF _loss = "CrossEntropy" THEN 1 ELSE 0)
    /\ [][caller = "process" =>
            /\ weights' = weights /\ savedWeights' = savedWeights
            /\ _trainLosses' = _trainLosses /\ _validLosses' = _validLosses
            /\ recorded' = recorded
            /\ _epoch' = _epoch /\ _optimalEpoch' = _optimalEpoch]_vars

\* process has returned from a network of MaxLayers layers under
\* BinaryCrossEntropy
C16_Witness ==
    /\ caller = "process"
    /\ ppc = "processed"
    /\ _loss = "BinaryCrossEntropy"
    /\ Len(layerSize) = MaxLayers
    /\ Len(inputs.through) = MaxLayers
    /\ inputs.softmax = 0

(***************************************************************************)
(* Layer::save and Layer::loadSaved (keep and release in Layer.cpp): a     *)
(* loop over the neurons of the layer.  What a Neuron does in save and     *)
(* loadSaved is not part of these files; it is taken from the              *)
(* specification: save copies the neuron's weights into its checkpoint     *)
(* copy, loadSaved copies the checkpoint copy back.  A neuron's weights    *)
(* are one value 0..MaxWeight and updateWeights may leave any value.       *)
(***************************************************************************)
\* a checkpoint copy no save() has written
EmptyCopy == [set |-> FALSE, value |-> 0]

\* the checkpoint copy save() writes for the weights w
CopyOf(w) == [set |-> TRUE, value |-> w]

\* the loops stop one neuron short of the layer
AllButLastNeuron(n) == n - 1

\* for(i = 0; i < _neurons.size(); i++): the neurons the loops reach
NeuronsReached(n) == n

\* Layer::save: _neurons[i].save() on every neuron
LayerSave ==
    /\ kpc # "idle"
    /\ neuronSaved' = [i \in DOMAIN neuronSaved |->
                          IF i <= NeuronsReached(layerSize[1])
                          THEN CopyOf(neuronWeights[i]) ELSE neuronSaved[i]]
    /\ keptWeights' = neuronWeights
    /\ kpc' = "saved"
    /\ UNCHANGED <<pc, result, netVars, layerVars, learnVars, twin, fanVars, updateVars,
                   lossVars, processVars, neuronWeights, batchVars>>

\* Layer::updateWeights: every neuron's weights take some value
LayerUpdateWeights ==
    /\ kpc # "idle"
    /\ neuronWeights' \in [DOMAIN neuronWeights -> 0..MaxWeight]
    /\ kpc' = "updated"
    /\ UNCHANGED <<pc, result, netVars, layerVars, learnVars, twin, fanVars, updateVars,
                   lossVars, processVars, neuronSaved, keptWeights, batchVars>>

\* Layer::loadSaved: _neurons[i].loadSaved() on every neuron, which takes
\* the value of its copy, written or not
LayerLoadSaved ==
    /\ kpc # "idle"
    /\ neuronWeights' = [i \in DOMAIN neuronWeights |->
                            IF i <= NeuronsReached(layerSize[1])
                            THEN neuronSaved[i].value ELSE neuronWeights[i]]
    /\ kpc' = "loaded"
    /\ UNCHANGED <<pc, result, netVars, layerVars, learnVars, twin, fanVars, updateVars,
                   lossVars, processVars, neuronSaved, keptWeights, batchVars>>

\* a layer of 1..MaxNeurons neurons after init
InitCheckpoint ==
    /\ Constructed(MaxRows, 1, 1, 1, 1, 1)
    /\ \E n \in 1..MaxNeurons :
          /\ LayersAdded(<<n>>, 1)
          /\ neuronWeights \in [1..n -> 0..MaxWeight]
          /\ neuronSaved = [i \in 1..n |-> EmptyCopy]
    /\ keptWeights = <<>>
    /\ kpc = "constructed"
    /\ _maxEpoch = 0 /\ _patience = 0 /\ _plateau = PlateauDen /\ lowestLoss = 0
    /\ twin = NoTwin
    /\ NoFanOut /\ NoLoss /\ NoProcess /\ NoBatch
    /\ NoUpdateInput

NextCheckpoint ==
    \/ LayerSave
    \/ LayerUpdateWeights
    \/ LayerLoadSaved

SpecCheckpoint == InitCheckpoint /\ [][NextCheckpoint]_vars

ForwardLayer(L, i) == i

\* _layers[_layers.size() - i - 1]
BackwardLayer(L, i) == L - i - 1

Logged(o, l) == Append(log, [op |-> o, layer |-> l, batch |-> batch])

\* input = _layers[i]->processToLearn(...)
BatchForward ==
    /\ bpc.at = "forward"
    /\ log' = Logged("processToLearn", bpc.i)
    /\ bpc' = IF bpc.i + 1 < Len(layerSize)
              THEN [at |-> "forward", i |-> bpc.i + 1]
              ELSE [at |-> "loss", i |-> 0]
    /\ UNCHANGED <<pc, result, netVars, layerVars, learnVars, twin, fanVars, updateVars,
                   lossVars, processVars, keepVars, batch>>

\* Matrix gradients(transpose(computeLossMatrix(output, input).second));
BatchGradients ==
    /\ bpc.at = "loss"
    /\ log' = Logged("computeLossMatrix", Len(layerSize) - 1)
    /\ bpc' = [at |-> "computeGradients", i |-> 0]
    /\ UNCHANGED <<pc, result, netVars, layerVars, learnVars, twin, fanVars, updateVars,
                   lossVars, processVars, keepVars, batch>>

\* _layers[_layers.size() - i - 1]->computeGradients(gradients, _pool);
BatchComputeGradients ==
    /\ bpc.at = "computeGradients"
    /\ log' = Logged("computeGradients", BackwardLayer(Len(layerSize), bpc.i))
    /\ bpc' = [at |-> "getGradients", i |-> bpc.i]
    /\ UNCHANGED <<pc, result, netVars, layerVars, learnVars, twin, fanVars, updateVars,
                   lossVars, processVars, keepVars, batch>>

\* gradients = _layers[_layers.size() - i - 1]->getGradients();
BatchGetGradients ==
    /\ bpc.at = "getGradients"
    /\ log' = Logged("getGradients", BackwardLayer(Len(layerSize), bpc.i))
    /\ bpc' = IF bpc.i + 1 < Len(layerSize)
              THEN [at |-> "computeGradients", i |-> bpc.i + 1]
              ELSE [at |-> "update", i |-> 0]
    /\ UNCHANGED <<pc, result, netVars, layerVars, learnVars, twin, fanVars, updateVars,
                   lossVars, processVars, keepVars, batch>>

\* _layers[i]->updateWeights(...), and after the last layer the batch loop's
\* batch++ and test
BatchUpdateWeights ==
    /\ bpc.at = "update"
    /\ log' = Logged("updateWeights", bpc.i)
    /\ weights' = [weights EXCEPT ![bpc.i + 1].updates = @ + 1]
    /\ IF bpc.i + 1 < Len(layerSize)
       THEN bpc' = [at |-> "update", i |-> bpc.i + 1] /\ batch' = batch
       ELSE /\ batch' = batch + 1
            /\ bpc' = IF batch + 1 < _nbBatch
                      THEN [at |-> "forward", i |-> 0]
                      ELSE [at |-> "returned", i |-> 0]
    /\ UNCHANGED <<pc, result, netVars, layerSize, outputSize, savedWeights,
                   standardized, learnVars, twin, fanVars, updateVars, lossVars,
                   processVars, keepVars>>

\* a network of 1..MaxLayers initialized layers and 1..MaxBatches batches of
\* one row at the call of performeOneEpoch
InitBatch ==
    /\ seed = 1 /\ _seed = 1 /\ _generator = Mt19937(1)
    /\ _batchSize = 1 /\ _validationRatio = 1 /\ _testRatio = 1
    /\ _nbBatch \in 1..MaxBatches
    /\ _trainData = Rows(_nbBatch)
    /\ _rawData = <<>> /\ _validationData = <<>> /\ _testData = <<>>
    /\ dataSize = _nbBatch
    /\ popEmpty = FALSE
    /\ _epoch = 1 /\ _optimalEpoch = 0
    /\ _trainLosses = <<1>> /\ _validLosses = <<1>>
    /\ _testMetric = <<"metric">> /\ _testSecondMetric = <<"metric">>
    /\ pc = "epoch" /\ result = "none"
    /\ \E L \in 1..MaxLayers :
          /\ layerSize = [l \in 1..L |-> 1]
          /\ weights = [l \in 1..L |-> InitialWeights]
          /\ savedWeights = [l \in 1..L |-> EmptyCheckpoint]
          /\ epochWeights = <<[l \in 1..L |-> InitialWeights]>>
    /\ outputSize = 1
    /\ standardized = TRUE
    /\ _maxEpoch = 2 /\ _patience = 0 /\ _plateau = PlateauDen /\ lowestLoss = 1
    /\ twin = NoTwin
    /\ NoFanOut /\ NoLoss /\ NoProcess /\ NoKeep
    /\ NoUpdateInput
    /\ batch = 0
    /\ bpc = [at |-> "forward", i |-> 0]
    /\ log = <<>>

NextBatch ==
    \/ BatchForward
    \/ BatchGradients
    \/ BatchComputeGradients
    \/ BatchGetGradients
    \/ BatchUpdateWeights

SpecBatch == InitBatch /\ [][NextBatch]_vars

\* C20: the Layer calls of each batch are, in this order, processToLearn on
\* the layers 0..L-1, then computeGradients followed by getGradients on each
\* of the layers L-1..0, then updateWeights on the layers 0..L-1; while a
\* batch has a gradient still to compute no layer has been updated for it.
C20_BatchOrder ==
    LET L == Len(layerSize)
        PerBatch == 4 * L + 1
        Expected(k) ==
            LET p == (k - 1) % PerBatch
                q == p - L - 1
            IN [batch |-> (k - 1) \div PerBatch,
                op |-> IF p < L THEN "processToLearn"
                       ELSE IF p = L THEN "computeLossMatrix"
                       ELSE IF p > 3 * L THEN "updateWeights"
                       ELSE IF q % 2 = 0 THEN "computeGradients"
                       ELSE "getGradients",
                layer |-> IF p < L THEN p
                          ELSE IF p = L THEN L - 1
                          ELSE IF p > 3 * L THEN p - 3 * L - 1
                          ELSE (L - 1) - (q \div 2)]
    IN /\ \A k \in 1..Len(log) : log[k] = Expected(k)
       /\ bpc.at \in {"forward", "loss", "computeGradients", "getGradients"} =>
             \A l \in Layers : weights[l].updates = batch

\* the second batch of a network of MaxLayers layers has updated its last
\* layer
C20_Witness ==
    /\ Len(layerSize) = MaxLayers
    /\ batch = 2
    /\ Len(log) = 2 * (4 * MaxLayers + 1)
    /\ log[Len(log)] = [op |-> "updateWeights", layer |-> MaxLayers - 1,
                        batch |-> 1]
    /\ \A l \in Layers : weights[l].updates = 2

(***************************************************************************)
(* The rows of the batches: shuffleData, then the epochs of learn with     *)
(* performeOneEpoch copying rows batch*_batchSize + i of _trainData into   *)
(* each batch.  log holds, for every batch assembled, its epoch, its       *)
(* number, the indices read and the rows they gave.  operator[] of the     *)
(* vector at an index past its end is undefined: the process dies there or *)
(* the read gives something that is no row of the training set (0).        *)
(***************************************************************************)
\* the indices batch b reads: batch*_batchSize+i for i = 0.._batchSize-1
BatchIndices(b) == [i \in 1.._batchSize |-> b * _batchSize + (i - 1)]

\* _trainData[k], k counted from 0
TrainRow(k) == IF k < Len(_trainData) THEN _trainData[k + 1] ELSE 0

\* the for loop of learn is entered: _epoch = 1
EnterEpochs ==
    /\ pc = "partitioned"
    /\ _epoch' = 1
    /\ pc' = IF 1 < _maxEpoch THEN "epoch" ELSE "restore"
    /\ UNCHANGED <<restVars, result, netVars, layerVars, _maxEpoch, _patience,
                   _plateau, _optimalEpoch, lowestLoss, _trainLosses,
                   _validLosses, epochWeights, _testMetric,
                   _testSecondMetric, twin, fanVars>>

\* performeOneEpoch: the rows of batch `batch` are copied into input and
\* output
AssembleBatch ==
    /\ pc = "epoch"
    /\ batch < _nbBatch
    /\ LET idx == BatchIndices(batch)
           entry == [epoch |-> _epoch, batch |-> batch, indices |-> idx,
                     rows |-> [i \in 1.._batchSize |-> TrainRow(idx[i])]]
       IN \/ /\ log' = Append(log, entry)
             /\ batch' = batch + 1
             /\ pc' = pc
          \/ /\ \E i \in 1.._batchSize : idx[i] >= Len(_trainData)
             /\ log' = Append(log, entry)
             /\ batch' = batch
             /\ pc' = "crashed"
    /\ UNCHANGED <<result, netVars, layerVars, learnVars, twin, fanVars, updateVars,
                   lossVars, processVars, keepVars, bpc>>

\* the batch loop is over: the loop's _epoch++ and test
EpochOver ==
    /\ pc = "epoch"
    /\ batch = _nbBatch
    /\ batch' = 0
    /\ _epoch' = _epoch + 1
    /\ pc' = IF _epoch + 1 < _maxEpoch THEN "epoch" ELSE "restore"
    /\ UNCHANGED <<result, netVars, layerVars, _maxEpoch, _patience,
                   _plateau, _optimalEpoch, lowestLoss, _trainLosses,
                   _validLosses, epochWeights, _testMetric,
                   _testSecondMetric, twin, fanVars, updateVars,
                   lossVars, processVars, keepVars, bpc, log>>

\* every dataset size, batch size and pair of ratios within the bounds,
\* under a cap of MaxEpochs
InitRows ==
    /\ \E n \in 1..MaxRows, b \in 1..MaxBatchSize,
          vn \in 0..(RatioDen - 1), tn \in 0..(RatioDen - 1) :
            /\ vn + tn >= 1
            /\ vn + tn < RatioDen
            /\ Constructed(n, b, vn, tn, 1, 1)
    /\ LayersAdded(<<1>>, 1)
    /\ _maxEpoch = MaxEpochs
    /\ _patience = 0 /\ _plateau = PlateauDen /\ lowestLoss = 0
    /\ twin = NoTwin
    /\ NoFanOut
    /\ NoLoss /\ NoProcess /\ NoKeep /\ NoBatch
    /\ NoUpdateInput

NextRows ==
    \/ InitLayers
    \/ ShuffleDataDefined
    \/ ShuffleDataUndefined
    \/ EnterEpochs
    \/ AssembleBatch
    \/ EpochOver

SpecRows == InitRows /\ [][NextRows]_vars

\* C22: every batch assembled reads the indices b*batchSize ..
\* b*batchSize + batchSize - 1 in that order, each below the size of the
\* training set, and batch b holds the same rows in every epoch.
C22_BatchRowsInRange ==
    \A k \in DOMAIN log :
        /\ log[k].batch < _nbBatch
        /\ \A i \in 1.._batchSize :
              /\ log[k].indices[i] = log[k].batch * _batchSize + (i - 1)
              /\ log[k].indices[i] < Len(_trainData)
              /\ log[k].rows[i] = _trainData[log[k].indices[i] + 1]
        /\ \A j \in DOMAIN log :
              log[j].batch = log[k].batch => log[j].rows = log[k].rows

(***************************************************************************)
(* Layer::updateInput (Layer.cpp): a loop on the calling thread over the   *)
(* neurons, each call of Neuron::updateInput editing the elements of the   *)
(* one input vector in turn.  An element of input is the sequence of the   *)
(* neurons that have edited it.                                            *)
(***************************************************************************)
\* the loop taking the neurons from the last to the first
LastNeuronFirst(n, i) == n - 1 - i

\* _neurons[i] for the loop index i
UpdatedNeuron(n, i) == i

\* _neurons[i].updateInput(input, learningRate) is called
UpdateInputCall ==
    /\ upc = "loop"
    /\ updaters = {}
    /\ ui < layerSize[1]
    /\ updaters' = {[neuron |-> UpdatedNeuron(layerSize[1], ui),
                     thread |-> Orchestrator, element |-> 1]}
    /\ UNCHANGED <<pc, result, netVars, layerVars, learnVars, twin, fanVars,
                   lossVars, processVars, keepVars, batchVars, input, upc, ui>>

\* the neuron edits the next element of input
UpdateInputElement ==
    /\ \E u \in updaters :
          /\ u.element <= Len(input)
          /\ input' = [input EXCEPT ![u.element] = Append(@, u.neuron)]
          /\ updaters' = (updaters \ {u})
                            \cup {[u EXCEPT !.element = @ + 1]}
    /\ UNCHANGED <<pc, result, netVars, layerVars, learnVars, twin, fanVars,
                   lossVars, processVars, keepVars, batchVars, upc, ui>>

\* the call returns, and the loop's i++
UpdateInputNext ==
    /\ \E u \in updaters :
          /\ u.element > Len(input)
          /\ updaters' = updaters \ {u}
    /\ ui' = ui + 1
    /\ UNCHANGED <<pc, result, netVars, layerVars, learnVars, twin, fanVars,
                   lossVars, processVars, keepVars, batchVars, input, upc>>

\* the loop's test fails and updateInput returns
UpdateInputReturn ==
    /\ upc = "loop"
    /\ updaters = {}
    /\ ui = layerSize[1]
    /\ upc' = "returned"
    /\ UNCHANGED <<pc, result, netVars, layerVars, learnVars, twin, fanVars,
                   lossVars, processVars, keepVars, batchVars, input, ui,
                   updaters>>

\* a layer of 1..MaxNeurons neurons of a network with a pool of
\* 1..MaxThreads threads, at the call of updateInput on a vector of
\* 1..MaxElements elements
InitUpdateInput ==
    /\ Constructed(MaxRows, 1, 1, 1, 1, 1)
    /\ \E n \in 1..MaxNeurons : LayersAdded(<<n>>, 1)
    /\ _maxEpoch = 0 /\ _patience = 0 /\ _plateau = PlateauDen /\ lowestLoss = 0
    /\ twin = NoTwin
    /\ nthreads \in 1..MaxThreads
    /\ pooled = TRUE
    /\ _dropout \in 0..(DropoutDen - 1)
    /\ batchRows = 1
    /\ _inputSize = 0
    /\ op = "none" /\ lpc = "idle" /\ joined = 0
    /\ tasks = <<>> /\ output = <<>> /\ grad = <<>> /\ visits = <<>>
    /\ drawnBy = {}
    /\ NoLoss /\ NoProcess /\ NoKeep /\ NoBatch
    /\ \E m \in 1..MaxElements : input = [j \in 1..m |-> <<>>]
    /\ upc = "loop"
    /\ ui = 0
    /\ updaters = {}

NextUpdateInput ==
    \/ UpdateInputCall
    \/ UpdateInputElement
    \/ UpdateInputNext
    \/ UpdateInputReturn

SpecUpdateInput == InitUpdateInput /\ [][NextUpdateInput]_vars

\* the neurons 0..k-1 in index order
FirstNeurons(k) == [i \in 1..k |-> i - 1]

\* C25: at most one neuron is editing input at any time, on the calling
\* thread; every element of input has been edited by the neurons 0..k-1 in
\* index order, k being the loop index, and by neuron k as well only while
\* its call is under way; at the return every neuron has edited every
\* element once.
C25_OneNeuronAtATime ==
    /\ Cardinality(updaters) <= 1
    /\ \A u \in updaters : u.thread = Orchestrator /\ u.neuron = ui
    /\ \A j \in DOMAIN input :
          \/ input[j] = FirstNeurons(ui)
          \/ /\ input[j] = FirstNeurons(ui + 1)
             /\ \E u \in updaters : u.neuron = ui /\ u.element > j
    /\ upc = "returned" =>
          \A j \in DOMAIN input : input[j] = FirstNeurons(layerSize[1])

\* updateInput has returned on MaxNeurons neurons and MaxElements elements
C25_Witness ==
    /\ upc = "returned"
    /\ layerSize[1] = MaxNeurons
    /\ Len(input) = MaxElements
    /\ \A j \in 1..MaxElements : Len(input[j]) = MaxNeurons

=============================================================================
